---------------------------- MODULE Spec2Model ----------------------------
(* Reference-frame registry, frame tree and transform composition of        *)
(* rigid_body_motion/reference_frames.py.                                   *)
(*                                                                          *)
(* Frames are objects 1..MaxFrames; 0 stands for Python's None where a      *)
(* frame is expected.  Vectors and quaternions are tuples of integers;      *)
(* None is the empty tuple and an attribute that was never assigned is      *)
(* Unset.  Rotations are unit quaternions with integer components           *)
(* (w,x,y,z), so every matrix entry is an integer and the arithmetic of     *)
(* numpy is exact.                                                          *)
EXTENDS Integers, Sequences, FiniteSets, TLC

\* ------------------------------------------------------------- bounds
\* frame objects of the model: the size of the trees whose transforms are composed
MaxFrames == 3
\* constructor calls in a run of the registry and lifecycle specification
MaxConstructed == 2

Names == {"a", "b"}
Frames == 1..MaxFrames

None == <<>>
Unset == <<"unset">>

\* translations and rotations of the frames whose transforms are composed;
\* the rotations are the identity and the half turns about x and z
Translations == {<<1, 0, 0>>, <<1, 2, 3>>}
Rotations == {<<1, 0, 0, 0>>, <<0, 1, 0, 0>>, <<0, 0, 0, 1>>}
\* translation and rotation arguments of the constructor calls
CallTranslations == {<<1, 0, 0>>}
CallRotations == {<<0, 1, 0, 0>>}

ZeroTranslation == <<0, 0, 0>>
IdentityRotation == <<1, 0, 0, 0>>

\* --------------------------------------------------------------- state
VARIABLES
    _registry,     \* dict name -> frame: a function on the registered names
    status,        \* per object: "unborn", "live", "rejected" (__init__ raised), "dead" (__del__ ran)
    name,          \* self.name
    register,      \* self.register
    parent,        \* NodeMixin parent (0: None)
    children,      \* NodeMixin children, in attachment order
    translation,   \* self.translation (None, Unset or a 3-vector)
    rotation,      \* self.rotation (Unset or a quaternion)
    last           \* the last call: its arguments and its outcome

vars == <<_registry, status, name, register, parent, children, translation, rotation, last>>

\* ------------------------------------------------- quaternions, matrices
\* np.eye(4)
Eye4 == << <<1, 0, 0, 0>>, <<0, 1, 0, 0>>, <<0, 0, 1, 0>>, <<0, 0, 0, 1>> >>

\* np.matmul on 4x4 matrices
Dot(A, B, i, j) == A[i][1] * B[1][j] + A[i][2] * B[2][j] + A[i][3] * B[3][j] + A[i][4] * B[4][j]

MatMulRow(A, B, i) == <<Dot(A, B, i, 1), Dot(A, B, i, 2), Dot(A, B, i, 3), Dot(A, B, i, 4)>>

MatMul(A, B) == <<MatMulRow(A, B, 1), MatMulRow(A, B, 2), MatMulRow(A, B, 3), MatMulRow(A, B, 4)>>

Norm2(q) == q[1] * q[1] + q[2] * q[2] + q[3] * q[3] + q[4] * q[4]

\* 1 / quaternion(w, x, y, z): the conjugate over the squared norm
QuatInverse(q) ==
    LET n == Norm2(q)
    IN <<q[1] \div n, (0 - q[2]) \div n, (0 - q[3]) \div n, (0 - q[4]) \div n>>

\* mutant: the four numbers are read scalar-last, as (x, y, z, w)
AsRotationMatrixScalarLast(q) ==
    LET n == Norm2(q)
        w == q[4]
        x == q[1]
        y == q[2]
        z == q[3]
    IN << <<1 - (2 * (y * y + z * z)) \div n, (2 * (x * y - z * w)) \div n, (2 * (x * z + y * w)) \div n>>,
          <<(2 * (x * y + z * w)) \div n, 1 - (2 * (x * x + z * z)) \div n, (2 * (y * z - x * w)) \div n>>,
          <<(2 * (x * z - y * w)) \div n, (2 * (y * z + x * w)) \div n, 1 - (2 * (x * x + y * y)) \div n>> >>

\* quaternion.as_rotation_matrix
AsRotationMatrix(q) ==
    LET n == Norm2(q)
        w == q[1]
        x == q[2]
        y == q[3]
        z == q[4]
    IN << <<1 - (2 * (y * y + z * z)) \div n, (2 * (x * y - z * w)) \div n, (2 * (x * z + y * w)) \div n>>,
          <<(2 * (x * y + z * w)) \div n, 1 - (2 * (x * x + z * z)) \div n, (2 * (y * z - x * w)) \div n>>,
          <<(2 * (x * z - y * w)) \div n, (2 * (y * z + x * w)) \div n, 1 - (2 * (x * x + y * y)) \div n>> >>

\* integer square root of a perfect square
ISqrt(n) == CHOOSE k \in 0..n : k * k = n

\* quaternion.from_rotation_matrix: the component with the largest diagonal
\* term is taken positive and the others follow from the off-diagonal sums
FromRotationMatrix(m) ==
    LET tr == m[1][1] + m[2][2] + m[3][3]
    IN IF tr > 0
       THEN LET s == 2 * ISqrt(tr + 1)
            IN <<s \div 4, (m[3][2] - m[2][3]) \div s, (m[1][3] - m[3][1]) \div s, (m[2][1] - m[1][2]) \div s>>
       ELSE IF m[1][1] > m[2][2] /\ m[1][1] > m[3][3]
       THEN LET s == 2 * ISqrt(1 + m[1][1] - m[2][2] - m[3][3])
            IN <<(m[3][2] - m[2][3]) \div s, s \div 4, (m[1][2] + m[2][1]) \div s, (m[1][3] + m[3][1]) \div s>>
       ELSE IF m[2][2] > m[3][3]
       THEN LET s == 2 * ISqrt(1 + m[2][2] - m[1][1] - m[3][3])
            IN <<(m[1][3] - m[3][1]) \div s, (m[1][2] + m[2][1]) \div s, s \div 4, (m[2][3] + m[3][2]) \div s>>
       ELSE LET s == 2 * ISqrt(1 + m[3][3] - m[1][1] - m[2][2])
            IN <<(m[2][1] - m[1][2]) \div s, (m[1][3] + m[3][1]) \div s, (m[2][3] + m[3][2]) \div s, s \div 4>>

\* a 4x4 homogeneous matrix from a rotation block and a translation column
Homogeneous(rot, t) ==
    << <<rot[1][1], rot[1][2], rot[1][3], t[1]>>,
       <<rot[2][1], rot[2][2], rot[2][3], t[2]>>,
       <<rot[3][1], rot[3][2], rot[3][3], t[3]>>,
       <<0, 0, 0, 1>> >>

\* mat[:3, :3]
RotationBlock(mat) == <<SubSeq(mat[1], 1, 3), SubSeq(mat[2], 1, 3), SubSeq(mat[3], 1, 3)>>

\* tuple(mat[:3, 3])
TranslationColumn(mat) == <<mat[1][4], mat[2][4], mat[3][4]>>

\* ------------------------------------------------------------ the tree
RECURSIVE Path(_)
\* NodeMixin.path: the frames from the root down to f
Path(f) == IF parent[f] = 0 THEN <<f>> ELSE Append(Path(parent[f]), f)

\* NodeMixin.root
Root(f) == Path(f)[1]

\* the frames linked to f through parent and children references
TreeOf(f) == {g \in Frames : status[g] # "unborn" /\ Root(g) = Root(f)}

RECURSIVE Reverse(_)
\* reversed(s)
Reverse(s) == IF s = <<>> THEN <<>> ELSE Append(Reverse(Tail(s)), Head(s))

\* Walker.__calc_common: the frames two paths share position by position
RECURSIVE CalcCommon(_, _)
CalcCommon(s, e) ==
    IF s = <<>> \/ e = <<>> THEN <<>>
    ELSE IF Head(s) = Head(e) THEN <<Head(s)>> \o CalcCommon(Tail(s), Tail(e))
    ELSE CalcCommon(Tail(s), Tail(e))

\* Walker.walk raises WalkError when the two frames have different roots
SameTree(start, end) == Root(start) = Root(end)

\* mutant: up is the slice of the path as it is, from the top down
WalkUpNotReversed(start, end) ==
    LET s == Path(start)
        e == Path(end)
        c == CalcCommon(s, e)
        lenc == Len(c)
        up == IF lenc > 0 /\ start = c[lenc] THEN <<>> ELSE SubSeq(s, lenc + 1, Len(s))
        down == IF lenc > 0 /\ end = c[lenc] THEN <<>> ELSE SubSeq(e, lenc + 1, Len(e))
    IN <<up, down>>

\* Walker.walk(start, end): <<up, down>>
Walk(start, end) ==
    LET s == Path(start)
        e == Path(end)
        c == CalcCommon(s, e)
        lenc == Len(c)
        up == IF lenc > 0 /\ start = c[lenc] THEN <<>> ELSE Reverse(SubSeq(s, lenc + 1, Len(s)))
        down == IF lenc > 0 /\ end = c[lenc] THEN <<>> ELSE SubSeq(e, lenc + 1, Len(e))
    IN <<up, down>>

\* -mat[:3, 3]
Neg(v) == <<0 - v[1], 0 - v[2], 0 - v[3]>>

\* mutant: the inverse matrix keeps the translation, it is not negated
GetParentTransformMatrixNotNegated(rf, inverse) ==
    IF inverse
    THEN Homogeneous(AsRotationMatrix(QuatInverse(rotation[rf])), translation[rf])
    ELSE Homogeneous(AsRotationMatrix(rotation[rf]), translation[rf])

\* ReferenceFrame._get_parent_transform_matrix
GetParentTransformMatrix(rf, inverse) ==
    IF inverse
    THEN Homogeneous(AsRotationMatrix(QuatInverse(rotation[rf])), Neg(translation[rf]))
    ELSE Homogeneous(AsRotationMatrix(rotation[rf]), translation[rf])

RECURSIVE MatMulAllPremultiplied(_, _, _)
\* mutant: the loops multiply from the left, mat = np.matmul(<matrix of rf>, mat)
MatMulAllPremultiplied(mat, frames, inverse) ==
    IF frames = <<>> THEN mat
    ELSE MatMulAllPremultiplied(MatMul(GetParentTransformMatrix(Head(frames), inverse), mat),
                                Tail(frames), inverse)

RECURSIVE MatMulAll(_, _, _)
\* the loops of get_transform: mat = np.matmul(mat, <matrix of rf>) for rf in frames
MatMulAll(mat, frames, inverse) ==
    IF frames = <<>> THEN mat
    ELSE MatMulAll(MatMul(mat, GetParentTransformMatrix(Head(frames), inverse)), Tail(frames), inverse)

\* the matrix get_transform accumulates from self to to_rf (both frames of one tree)
TransformMatrix(self, to_rf) ==
    LET w == Walk(self, to_rf)
    IN MatMulAll(MatMulAll(Eye4, w[1], TRUE), w[2], FALSE)

\* mutant: get_transform answers a frame's own stored transform when to_rf is self
TransformOfOwnTransform(self, to_rf) ==
    IF ~SameTree(self, to_rf) THEN <<None, None>>
    ELSE IF self = to_rf THEN <<translation[self], rotation[self]>>
    ELSE LET mat == TransformMatrix(self, to_rf)
         IN <<TranslationColumn(mat), FromRotationMatrix(RotationBlock(mat))>>

\* what get_transform returns: <<translation, rotation>>; frames of different
\* trees have no transform
TransformOf(self, to_rf) ==
    IF ~SameTree(self, to_rf) THEN <<None, None>>
    ELSE LET mat == TransformMatrix(self, to_rf)
         IN <<TranslationColumn(mat), FromRotationMatrix(RotationBlock(mat))>>

\* ---------------------------------------------------------- the program
\* a frame object the caller can still pass: constructed and not collected
Usable(f) == status[f] = "live"

\* mutant: the registry does not keep its frames alive, a tree is garbage as
\* soon as the caller has dropped it
CollectableWhileRegistered(f) == status[f] \in {"live", "rejected"}

\* a frame's parent and children references keep its whole tree alive: the tree
\* is garbage once the caller has dropped it and none of its frames is in the registry
Collectable(f) ==
    /\ status[f] \in {"live", "rejected"}
    /\ \A g \in TreeOf(f) : \A n \in DOMAIN _registry : _registry[n] # g

NoCall == [op |-> "none", err |-> "none", obj |-> 0, arg |-> "", parentArg |-> <<"none">>,
           t |-> None, r |-> None, reg |-> FALSE, dst |-> 0,
           translation |-> None, rotation |-> None,
           method |-> "", into |-> <<"none">>, outof |-> <<"none">>,
           attrs |-> <<"none">>, attrsOut |-> <<"none">>]

Init ==
    /\ _registry = <<>>
    /\ status = [f \in Frames |-> "unborn"]
    /\ name = [f \in Frames |-> ""]
    /\ register = [f \in Frames |-> FALSE]
    /\ parent = [f \in Frames |-> 0]
    /\ children = [f \in Frames |-> <<>>]
    /\ translation = [f \in Frames |-> Unset]
    /\ rotation = [f \in Frames |-> Unset]
    /\ last = NoCall

\* mutant: registering rebinds the registry to a dict with the one new entry
RegistryPutAlone(reg, key, rf) == [n \in {key} |-> rf]

\* _registry[key] = rf
RegistryPut(reg, key, rf) == [n \in DOMAIN reg \cup {key} |-> IF n = key THEN rf ELSE reg[n]]

\* _registry.pop(key)
RegistryPop(reg, key) == [n \in DOMAIN reg \ {key} |-> reg[n]]

\* the arguments a caller can pass as parent or to_rf: None, a name, a frame object
ParentArgs == {<<"none">>} \cup {<<"name", n>> : n \in Names} \cup {<<"frame", f>> : f \in {g \in Frames : Usable(g)}}

\* the object the next construction allocates
NewFrame == CHOOSE f \in Frames : status[f] = "unborn" /\ \A g \in Frames : g < f => status[g] # "unborn"

\* isinstance(parent, str): parent = _registry[parent], KeyError -> ValueError
ParentResolves(parentArg) == parentArg[1] # "name" \/ parentArg[2] \in DOMAIN _registry

\* mutant: a frame object is looked up again under its name when that name is registered
ResolveParentThroughName(parentArg) ==
    IF parentArg[1] = "name" THEN _registry[parentArg[2]]
    ELSE IF parentArg[1] = "frame"
         THEN (IF name[parentArg[2]] \in DOMAIN _registry
               THEN _registry[name[parentArg[2]]]
               ELSE parentArg[2])
    ELSE 0

ResolveParent(parentArg) ==
    IF parentArg[1] = "name" THEN _registry[parentArg[2]]
    ELSE IF parentArg[1] = "frame" THEN parentArg[2]
    ELSE 0

\* mutant: the duplicate check of register_reference_frame is missing
RegisterNeverRaises(nm) == FALSE

\* register_reference_frame raises when rf.name is a key of the registry
RegisterRaises(nm) == nm \in DOMAIN _registry

\* mutant: __init__ does not reject a rotation given without a parent
InitErrorRotationUnchecked(nm, parentArg, t, r, reg) ==
    IF ~ParentResolves(parentArg) THEN "parent_not_found"
    ELSE IF ResolveParent(parentArg) = 0 /\ t # None THEN "translation_without_parent"
    ELSE IF reg /\ RegisterRaises(nm) THEN "duplicate"
    ELSE "none"

\* where __init__ raises, in the order of its statements ("none": it returns)
InitError(nm, parentArg, t, r, reg) ==
    IF ~ParentResolves(parentArg) THEN "parent_not_found"
    ELSE IF ResolveParent(parentArg) = 0 /\ t # None THEN "translation_without_parent"
    ELSE IF ResolveParent(parentArg) = 0 /\ r # None THEN "rotation_without_parent"
    ELSE IF reg /\ RegisterRaises(nm) THEN "duplicate"
    ELSE "none"

\* mutant: a translation that was omitted stays None under a parent
InitTranslationNoDefault(parentArg, t) ==
    IF ~ParentResolves(parentArg) THEN Unset
    ELSE IF ResolveParent(parentArg) # 0 THEN t
    ELSE IF t # None THEN Unset
    ELSE None

\* self.translation when __init__ ends, by return or by raise
InitTranslation(parentArg, t) ==
    IF ~ParentResolves(parentArg) THEN Unset
    ELSE IF ResolveParent(parentArg) # 0 THEN (IF t = None THEN ZeroTranslation ELSE t)
    ELSE IF t # None THEN Unset
    ELSE None

\* self.rotation when __init__ ends: the branch without a parent never assigns it
InitRotation(parentArg, r) ==
    IF ~ParentResolves(parentArg) THEN Unset
    ELSE IF ResolveParent(parentArg) # 0 THEN (IF r = None THEN IdentityRotation ELSE r)
    ELSE Unset

\* whether __init__ reaches self.parent = parent before it raises
InitLinks(err) == err \in {"none", "duplicate"}

\* mutant: the constructor sets the parent of the new frame and does not enter
\* the frame in the children of the parent
ReferenceFrameOneSided(nm, parentArg, t, r, reg) ==
    /\ Cardinality({f \in Frames : status[f] # "unborn"}) < MaxConstructed
    /\ LET self == NewFrame
           err == InitError(nm, parentArg, t, r, reg)
           p == IF InitLinks(err) THEN ResolveParent(parentArg) ELSE 0
       IN /\ name' = [name EXCEPT ![self] = nm]
          /\ register' = [register EXCEPT ![self] = reg]
          /\ translation' = [translation EXCEPT ![self] = InitTranslation(parentArg, t)]
          /\ rotation' = [rotation EXCEPT ![self] = InitRotation(parentArg, r)]
          /\ parent' = [parent EXCEPT ![self] = p]
          /\ children' = children
          /\ _registry' = IF err = "none" /\ reg THEN RegistryPut(_registry, nm, self) ELSE _registry
          /\ status' = [status EXCEPT ![self] = IF err = "none" THEN "live" ELSE "rejected"]
          /\ last' = [NoCall EXCEPT !.op = "init", !.err = err, !.obj = self, !.arg = nm,
                                    !.parentArg = parentArg, !.t = t, !.r = r, !.reg = reg]

\* ReferenceFrame(name, parent, translation, rotation, register)
ReferenceFrame(nm, parentArg, t, r, reg) ==
    /\ Cardinality({f \in Frames : status[f] # "unborn"}) < MaxConstructed
    /\ LET self == NewFrame
           err == InitError(nm, parentArg, t, r, reg)
           p == IF InitLinks(err) THEN ResolveParent(parentArg) ELSE 0
       IN /\ name' = [name EXCEPT ![self] = nm]
          /\ register' = [register EXCEPT ![self] = reg]
          /\ translation' = [translation EXCEPT ![self] = InitTranslation(parentArg, t)]
          /\ rotation' = [rotation EXCEPT ![self] = InitRotation(parentArg, r)]
          /\ parent' = [parent EXCEPT ![self] = p]
          /\ children' = IF p # 0 THEN [children EXCEPT ![p] = Append(@, self)] ELSE children
          /\ _registry' = IF err = "none" /\ reg THEN RegistryPut(_registry, nm, self) ELSE _registry
          /\ status' = [status EXCEPT ![self] = IF err = "none" THEN "live" ELSE "rejected"]
          /\ last' = [NoCall EXCEPT !.op = "init", !.err = err, !.obj = self, !.arg = nm,
                                    !.parentArg = parentArg, !.t = t, !.r = r, !.reg = reg]

\* register_reference_frame(rf), called by the user on a frame object
RegisterReferenceFrame(rf) ==
    /\ Usable(rf)
    /\ _registry' = IF RegisterRaises(name[rf]) THEN _registry ELSE RegistryPut(_registry, name[rf], rf)
    /\ last' = [NoCall EXCEPT !.op = "register", !.obj = rf, !.arg = name[rf], !.reg = TRUE,
                              !.err = IF RegisterRaises(name[rf]) THEN "duplicate" ELSE "none"]
    /\ UNCHANGED <<status, name, register, parent, children, translation, rotation>>

\* mutant: deregister_reference_frame pops with a default, without the check
DeregisterNeverRaises(nm) == FALSE

\* deregister_reference_frame raises when name is not a key of the registry
DeregisterRaises(nm) == nm \notin DOMAIN _registry

\* deregister_reference_frame(name)
DeregisterReferenceFrame(nm) ==
    /\ _registry' = IF DeregisterRaises(nm) THEN _registry ELSE RegistryPop(_registry, nm)
    /\ last' = [NoCall EXCEPT !.op = "deregister", !.arg = nm,
                              !.err = IF DeregisterRaises(nm) THEN "not_found" ELSE "none"]
    /\ UNCHANGED <<status, name, register, parent, children, translation, rotation>>

\* mutant: clear_registry assigns a new dict to a local name, the registry stays
ClearRegistryRebindsLocal ==
    /\ _registry' = _registry
    /\ last' = [NoCall EXCEPT !.op = "clear"]
    /\ UNCHANGED <<status, name, register, parent, children, translation, rotation>>

\* clear_registry()
ClearRegistry ==
    /\ _registry' = <<>>
    /\ last' = [NoCall EXCEPT !.op = "clear"]
    /\ UNCHANGED <<status, name, register, parent, children, translation, rotation>>

\* mutant: __del__ tests self.register alone, not that the name is registered
DelDeregistersUnchecked(reg, self) == register[self]

\* the guard of __del__
DelDeregisters(reg, self) == register[self] /\ name[self] \in DOMAIN reg

\* the ValueError of deregister_reference_frame, raised inside __del__
DelRaises(reg, self) == DelDeregisters(reg, self) /\ name[self] \notin DOMAIN reg

\* ReferenceFrame.__del__: the registry it leaves
Del(reg, self) == IF DelDeregisters(reg, self) THEN RegistryPop(reg, name[self]) ELSE reg

RECURSIVE DelAll(_, _)
\* __del__ of every frame of a garbage tree, one after the other
DelAll(reg, frames) ==
    IF frames = {} THEN reg
    ELSE LET self == CHOOSE f \in frames : \A g \in frames : f <= g
         IN DelAll(Del(reg, self), frames \ {self})

\* the garbage collector finalizes and frees the tree rooted at root
GarbageCollect(root) ==
    /\ parent[root] = 0
    /\ Collectable(root)
    /\ LET garbage == TreeOf(root)
       IN /\ _registry' = DelAll(_registry, garbage)
          /\ status' = [f \in Frames |-> IF f \in garbage THEN "dead" ELSE status[f]]
          /\ name' = [f \in Frames |-> IF f \in garbage THEN "" ELSE name[f]]
          /\ register' = [f \in Frames |-> IF f \in garbage THEN FALSE ELSE register[f]]
          /\ parent' = [f \in Frames |-> IF f \in garbage THEN 0 ELSE parent[f]]
          /\ children' = [f \in Frames |-> IF f \in garbage THEN <<>> ELSE children[f]]
          /\ translation' = [f \in Frames |-> IF f \in garbage THEN Unset ELSE translation[f]]
          /\ rotation' = [f \in Frames |-> IF f \in garbage THEN Unset ELSE rotation[f]]
          /\ last' = [NoCall EXCEPT !.op = "del", !.obj = root, !.arg = name[root]]

\* self.__del__() run on a frame the caller still holds: an explicit teardown
CallDel(self) ==
    /\ Usable(self)
    /\ _registry' = Del(_registry, self)
    /\ last' = [NoCall EXCEPT !.op = "teardown", !.obj = self, !.arg = name[self],
                              !.err = IF DelRaises(_registry, self) THEN "not_found" ELSE "none"]
    /\ UNCHANGED <<status, name, register, parent, children, translation, rotation>>

\* mutant: the walk does not compare the roots of the two frames
WalkErrorRootsUnchecked(self, toArg) ==
    IF ~ParentResolves(toArg) THEN "not_found" ELSE "none"

\* _walk: to_rf given as a name is looked up in the registry
WalkError(self, toArg) ==
    IF ~ParentResolves(toArg) THEN "not_found"
    ELSE IF ~SameTree(self, ResolveParent(toArg)) THEN "walk_error"
    ELSE "none"

\* mutant: the inverse matrix negates the stored translation in place, so a
\* call leaves the frames it walked upward with -translation
GetTransformNegatesInPlace(self, toArg) ==
    /\ Usable(self)
    /\ toArg[1] # "none"
    /\ LET err == WalkError(self, toArg)
           to_rf == IF ParentResolves(toArg) THEN ResolveParent(toArg) ELSE 0
           res == IF err = "none" THEN TransformOf(self, to_rf) ELSE <<None, None>>
           up == IF err = "none" THEN Walk(self, to_rf)[1] ELSE <<>>
       IN /\ last' = [NoCall EXCEPT !.op = "get_transform", !.err = err, !.obj = self, !.parentArg = toArg,
                                    !.dst = to_rf, !.translation = res[1], !.rotation = res[2]]
          /\ translation' = [f \in Frames |->
                                IF \E i \in 1..Len(up) : up[i] = f THEN Neg(translation[f])
                                ELSE translation[f]]
    /\ UNCHANGED <<_registry, status, name, register, parent, children, rotation>>

\* self.get_transform(to_rf)
GetTransform(self, toArg) ==
    /\ Usable(self)
    /\ toArg[1] # "none"
    /\ LET err == WalkError(self, toArg)
           to_rf == IF ParentResolves(toArg) THEN ResolveParent(toArg) ELSE 0
           res == IF err = "none" THEN TransformOf(self, to_rf) ELSE <<None, None>>
       IN last' = [NoCall EXCEPT !.op = "get_transform", !.err = err, !.obj = self, !.parentArg = toArg,
                                 !.dst = to_rf, !.translation = res[1], !.rotation = res[2]]
    /\ UNCHANGED <<_registry, status, name, register, parent, children, translation, rotation>>

Next ==
    \/ \E nm \in Names, parentArg \in ParentArgs, t \in {None} \cup CallTranslations,
          r \in {None} \cup CallRotations, reg \in BOOLEAN :
            ReferenceFrame(nm, parentArg, t, r, reg)
    \/ \E rf \in Frames : RegisterReferenceFrame(rf)
    \/ \E nm \in Names : DeregisterReferenceFrame(nm)
    \/ ClearRegistry
    \/ \E root \in Frames : GarbageCollect(root)
    \/ \E self \in Frames : CallDel(self)

\* registry and lifecycle: constructor calls, register, deregister, clear, finalization
Spec == Init /\ [][Next]_vars

\* ------------------------------------------ lifecycle with get_transform
\* constructions without transform arguments, deregistrations and get_transform calls
NextResolve ==
    \/ \E nm \in Names, parentArg \in ParentArgs, reg \in BOOLEAN :
            ReferenceFrame(nm, parentArg, None, None, reg)
    \/ \E nm \in Names : DeregisterReferenceFrame(nm)
    \/ \E self \in Frames, toArg \in ParentArgs : GetTransform(self, toArg)

\* names given as parent and as target of get_transform while the registry changes
SpecResolve == Init /\ [][NextResolve]_vars

\* ---------------------------------------------- transforms over built trees
\* the children lists after the frames were constructed in the order 1, 2, ...
ChildrenOf(par) ==
    [p \in Frames |->
        LET kids == {f \in Frames : par[f] = p}
        IN [k \in 1..Cardinality(kids) |->
               CHOOSE f \in kids : Cardinality({g \in kids : g < f}) = k - 1]]

\* the argument that makes frame p the parent
AsParentArg(p) == IF p = 0 THEN <<"none">> ELSE <<"frame", p>>

\* The state after MaxFrames successful constructor calls: frame 1 is
\* ReferenceFrame("a"), every later frame is ReferenceFrame("b", parent, t, r,
\* register=False) with parent None or an earlier frame object, and t and r
\* given exactly when there is a parent.
InitTransform ==
    \E par \in [Frames -> 0..MaxFrames] :
      /\ \A f \in Frames : par[f] < f
      /\ \E tr \in [Frames -> {None} \cup Translations] :
           /\ \A f \in Frames : par[f] = 0 <=> tr[f] = None
           /\ \E ro \in [Frames -> {None} \cup Rotations] :
                /\ \A f \in Frames : par[f] = 0 <=> ro[f] = None
                /\ _registry = [n \in {"a"} |-> 1]
                /\ status = [f \in Frames |-> "live"]
                /\ name = [f \in Frames |-> IF f = 1 THEN "a" ELSE "b"]
                /\ register = [f \in Frames |-> f = 1]
                /\ parent = par
                /\ children = ChildrenOf(par)
                /\ translation = [f \in Frames |-> InitTranslation(AsParentArg(par[f]), tr[f])]
                /\ rotation = [f \in Frames |-> InitRotation(AsParentArg(par[f]), ro[f])]
                /\ last = NoCall

NextTransform == \E self \in Frames, toArg \in ParentArgs : GetTransform(self, toArg)

\* get_transform calls on the trees the constructor can build
SpecTransform == InitTransform /\ [][NextTransform]_vars

\* ------------------------------------------- arrays between named frames
\* the attrs _maybe_unpack_dataarray hands to _transform: <<"none">> for an
\* array that is no DataArray, <<"attrs", rep, ref>> for a DataArray whose
\* attrs hold "representation_frame": rep and "reference_frame": ref, where ""
\* stands for a key the dict does not have
ArrayAttrs ==
    {<<"none">>} \cup {<<"attrs", rep, ref>> : rep \in Names \cup {""}, ref \in Names \cup {""}}

Methods == {"transform_points", "transform_vectors", "transform_quaternions"}

\* attrs is not None and "representation_frame" in attrs
HasRepresentationFrame(attrs) == attrs[1] = "attrs" /\ attrs[2] # ""

\* attrs is not None and "reference_frame" in attrs
HasReferenceFrame(attrs) == attrs[1] = "attrs" /\ attrs[3] # ""

\* _resolve_rf raises for a name that is not registered
ResolveRfRaises(rf) == rf[1] = "name" /\ rf[2] \notin DOMAIN _registry

\* _resolve_rf: a name is looked up in the registry, anything else is returned as it is
ResolveRf(rf) ==
    IF rf[1] = "name" THEN _registry[rf[2]]
    ELSE IF rf[1] = "frame" THEN rf[2]
    ELSE 0

\* mutant: the reference_frame attribute is assigned to reference, outof is kept
OutofKeptForReference(outof, attrs) ==
    IF outof = <<"none">> THEN <<"name", attrs[2]>> ELSE outof

\* outof after the two defaulting blocks of _transform (reference is None in
\* every call the three public functions make)
OutofAfterDefaults(outof, attrs) ==
    LET first == IF outof = <<"none">> THEN <<"name", attrs[2]>> ELSE outof
    IN IF HasReferenceFrame(attrs) THEN <<"name", attrs[3]>> ELSE first

\* reference after the two defaulting blocks: it stays None when the attrs
\* have a reference_frame
ReferenceAfterDefaults(into, attrs) ==
    IF HasReferenceFrame(attrs) THEN <<"none">> ELSE into

\* where _transform raises before it calls the method of outof ("none": it calls it)
TransformError(into, outof, attrs) ==
    IF outof = <<"none">> /\ ~HasRepresentationFrame(attrs) THEN "outof_missing"
    ELSE IF ResolveRfRaises(into) THEN "not_found"
    ELSE IF ResolveRfRaises(OutofAfterDefaults(outof, attrs)) THEN "not_found"
    ELSE IF ResolveRfRaises(ReferenceAfterDefaults(into, attrs)) THEN "not_found"
    ELSE IF HasRepresentationFrame(attrs) /\ ResolveRf(ReferenceAfterDefaults(into, attrs)) = 0
         THEN "attribute_error"
    ELSE "none"

\* attrs.update(...): the attrs of the caller's DataArray when _transform is left
AttrsAfter(into, outof, attrs) ==
    IF TransformError(into, outof, attrs) = "none" /\ HasRepresentationFrame(attrs)
    THEN <<"attrs", name[ResolveRf(into)], name[ResolveRf(ReferenceAfterDefaults(into, attrs))]>>
    ELSE attrs

\* transform_points, transform_vectors, transform_quaternions: _transform up to
\* the call getattr(outof, method)(arr, into, ...), recorded as obj.method(dst)
Transform(method, attrs, into, outof) ==
    /\ into # <<"none">>
    /\ LET err == TransformError(into, outof, attrs)
       IN last' = [NoCall EXCEPT !.op = "transform", !.err = err, !.method = method,
                                 !.into = into, !.outof = outof, !.attrs = attrs,
                                 !.attrsOut = AttrsAfter(into, outof, attrs),
                                 !.obj = IF err = "none" THEN ResolveRf(OutofAfterDefaults(outof, attrs)) ELSE 0,
                                 !.dst = IF err = "none" THEN ResolveRf(into) ELSE 0]
    /\ UNCHANGED <<_registry, status, name, register, parent, children, translation, rotation>>

\* The state after MaxFrames successful constructor calls: frame 1 is
\* ReferenceFrame("a"), frame 2 is ReferenceFrame("b", parent, register=...) and
\* every later frame is ReferenceFrame("b", parent, register=False), with
\* parent None or an earlier frame object and no transform arguments.
InitArray ==
    \E par \in [Frames -> 0..MaxFrames] : \E reg2 \in BOOLEAN :
      /\ \A f \in Frames : par[f] < f
      /\ _registry = IF reg2 THEN [n \in {"a", "b"} |-> IF n = "a" THEN 1 ELSE 2]
                     ELSE [n \in {"a"} |-> 1]
      /\ status = [f \in Frames |-> "live"]
      /\ name = [f \in Frames |-> IF f = 1 THEN "a" ELSE "b"]
      /\ register = [f \in Frames |-> f = 1 \/ (f = 2 /\ reg2)]
      /\ parent = par
      /\ children = ChildrenOf(par)
      /\ translation = [f \in Frames |-> InitTranslation(AsParentArg(par[f]), None)]
      /\ rotation = [f \in Frames |-> InitRotation(AsParentArg(par[f]), None)]
      /\ last = NoCall

\* one call in a run: a call leaves nothing behind that a later call reads, and
\* the array of every call is drawn anew
NextArray ==
    /\ last.op = "none"
    /\ \E method \in Methods, attrs \in ArrayAttrs, into \in ParentArgs, outof \in ParentArgs :
          Transform(method, attrs, into, outof)

\* transform_points, transform_vectors and transform_quaternions calls on the
\* trees the constructor can build
SpecArray == InitArray /\ [][NextArray]_vars

\* ------------------------------------------------------------- claims
\* the identity transform as get_transform returns it
IdentityTransform == <<ZeroTranslation, IdentityRotation>>

\* the 4x4 matrix of a returned <<translation, rotation>>
MatrixOf(transform) == Homogeneous(AsRotationMatrix(transform[2]), transform[1])

\* two returned transforms composed the way get_transform composes matrices
Compose(first, second) ==
    LET mat == MatMul(MatrixOf(first), MatrixOf(second))
    IN <<TranslationColumn(mat), FromRotationMatrix(RotationBlock(mat))>>

\* frame f is in some children list
IsChild(f) == \E g \in Frames : \E i \in 1..Len(children[g]) : children[g][i] = f

\* the last call was get_transform from a frame to its parent, a root, and returned
ChildToRootCall ==
    /\ last.op = "get_transform"
    /\ last.err = "none"
    /\ last.dst # 0
    /\ parent[last.obj] = last.dst
    /\ parent[last.dst] = 0

\* C1: a register call, or a construction with register=True, whose name is
\* already a key of the registry fails with an error and leaves the registry
\* exactly as it was.
C1_DuplicateNameFails ==
    [][(/\ last'.op \in {"init", "register"}
        /\ last'.reg
        /\ last'.arg \in DOMAIN _registry)
       => (last'.err # "none" /\ _registry' = _registry)]_vars

\* C1 witness: a call was refused for its name while another frame holds the name
C1_Witness ==
    /\ last.err = "duplicate"
    /\ last.arg \in DOMAIN _registry
    /\ _registry[last.arg] # last.obj

\* C2: a construction that fails leaves the registry unchanged, also when the
\* rejected object (here one that is linked to no other frame) is finalized.
C2_FailedConstructionKeepsRegistry ==
    [][/\ (last'.op = "init" /\ last'.err # "none") => _registry' = _registry
       /\ (\E f \in Frames : /\ status[f] = "rejected"
                             /\ TreeOf(f) = {f}
                             /\ status'[f] = "dead")
            => _registry' = _registry]_vars

\* C3: when a construction with a parent fails on its duplicate name, the
\* rejected node is in no children list and has no parent link.
C3_RejectedNodeUnlinked ==
    (last.op = "init" /\ last.err = "duplicate" /\ last.parentArg[1] # "none")
        => (/\ ~IsChild(last.obj)
            /\ parent[last.obj] = 0
            /\ \A g \in Frames : parent[g] # last.obj)

\* C4 as stated: get_transform from a child with identity rotation to its
\* parent world returns the child's translation t and the identity rotation.
C4_ChildToWorldIsTranslation ==
    (ChildToRootCall /\ rotation[last.obj] = IdentityRotation)
        => (last.translation = translation[last.obj] /\ last.rotation = IdentityRotation)

\* C4 amended: get_transform from a child with identity rotation to its parent
\* world returns the negated translation -t and the identity rotation.
C4_ChildToWorldIsNegatedTranslation ==
    (ChildToRootCall /\ rotation[last.obj] = IdentityRotation)
        => (last.translation = Neg(translation[last.obj]) /\ last.rotation = IdentityRotation)

\* C4 witness: the child sits at (1,0,0) and the call returned (-1,0,0)
C4_Witness ==
    /\ ChildToRootCall
    /\ rotation[last.obj] = IdentityRotation
    /\ translation[last.obj] = <<1, 0, 0>>
    /\ last.translation = <<-1, 0, 0>>

\* C5: for any two frames A and B of one tree, the transform a call returned
\* from A to B composed with the transform from B to A is the identity
\* transform, in either order.
C5_RoundTripIsIdentity ==
    (last.op = "get_transform" /\ last.err = "none")
        => LET there == <<last.translation, last.rotation>>
               back == TransformOf(last.dst, last.obj)
           IN /\ Compose(there, back) = IdentityTransform
              /\ Compose(back, there) = IdentityTransform

\* C6: for every chain A parent of B, B parent of C, get_transform(C, A) is the
\* composition of get_transform(C, B) and get_transform(B, A); a call that
\* walked such a chain returned that composition.
C6_ChainComposes ==
    /\ \A a \in Frames : \A b \in Frames : \A c \in Frames :
          (parent[b] = a /\ parent[c] = b)
              => TransformOf(c, a) = Compose(TransformOf(c, b), TransformOf(b, a))
    /\ (/\ last.op = "get_transform"
        /\ last.err = "none"
        /\ parent[last.obj] # 0
        /\ parent[parent[last.obj]] = last.dst)
          => <<last.translation, last.rotation>> =
                Compose(TransformOf(last.obj, parent[last.obj]),
                        TransformOf(parent[last.obj], last.dst))

\* C6 witness: a call from a grandchild to its grandparent, over two different
\* half turns and two different translations
C6_Witness ==
    /\ last.op = "get_transform"
    /\ last.err = "none"
    /\ parent[last.obj] # 0
    /\ parent[parent[last.obj]] = last.dst
    /\ rotation[last.obj] = <<0, 1, 0, 0>>
    /\ rotation[parent[last.obj]] = <<0, 0, 0, 1>>
    /\ translation[last.obj] = <<1, 2, 3>>
    /\ translation[parent[last.obj]] = <<1, 0, 0>>

\* C7: get_transform from a frame to itself returns translation (0,0,0) and
\* rotation (1,0,0,0), for a root and for a frame with any transform of its own.
C7_SelfTransformIsIdentity ==
    /\ \A f \in Frames : TransformOf(f, f) = IdentityTransform
    /\ (last.op = "get_transform" /\ last.dst = last.obj)
          => (last.err = "none" /\ <<last.translation, last.rotation>> = IdentityTransform)

\* C7 witness: the call was made on a frame that is rotated and translated
\* against its parent
C7_Witness ==
    /\ last.op = "get_transform"
    /\ last.dst = last.obj
    /\ parent[last.obj] # 0
    /\ rotation[last.obj] = <<0, 0, 0, 1>>
    /\ translation[last.obj] = <<1, 2, 3>>

\* C8: get_transform between two frames of different trees fails with an error
\* and returns no transform.
C8_DisjointTreesFail ==
    (last.op = "get_transform" /\ last.dst # 0 /\ Root(last.obj) # Root(last.dst))
        => (last.err # "none" /\ last.translation = None /\ last.rotation = None)

\* C8 witness: the walk was refused between two frames that both resolved
C8_Witness ==
    /\ last.op = "get_transform"
    /\ last.dst # 0
    /\ Root(last.obj) # Root(last.dst)
    /\ last.err = "walk_error"

\* C9: a construction without a parent and with a translation, a rotation or
\* both fails with an error, and the call registers no frame.
C9_TransformWithoutParentFails ==
    [][(/\ last'.op = "init"
        /\ last'.parentArg = <<"none">>
        /\ (last'.t # None \/ last'.r # None))
       => (/\ last'.err # "none"
           /\ status'[last'.obj] = "rejected"
           /\ _registry' = _registry)]_vars

\* C9 witness: a rotation alone, with register=True and a free name, was refused
C9_Witness ==
    /\ last.op = "init"
    /\ last.parentArg = <<"none">>
    /\ last.t = None
    /\ last.r # None
    /\ last.reg
    /\ last.arg \notin DOMAIN _registry
    /\ last.err = "rotation_without_parent"

\* C10: deregister(name) fails and leaves the registry unchanged when name is
\* not registered; otherwise it removes that entry and no other.
C10_DeregisterRemovesOneEntry ==
    [][(last'.op = "deregister")
       => IF last'.arg \in DOMAIN _registry
          THEN /\ last'.err = "none"
               /\ DOMAIN _registry' = DOMAIN _registry \ {last'.arg}
               /\ \A n \in DOMAIN _registry' : _registry'[n] = _registry[n]
          ELSE /\ last'.err # "none"
               /\ _registry' = _registry]_vars

\* C10 witness: a name was deregistered while another entry stayed
C10_Witness ==
    /\ last.op = "deregister"
    /\ last.err = "none"
    /\ last.arg \notin DOMAIN _registry
    /\ DOMAIN _registry # {}

\* C11: the finalization of a frame never removes a registry entry that maps
\* to a different frame object, and no finalized frame is left in the registry.
C11_TeardownRemovesOnlyOwnEntry ==
    [][(\E f \in Frames : status[f] = "live" /\ status'[f] = "dead")
       => /\ \A n \in DOMAIN _registry :
                status'[_registry[n]] # "dead"
                    => (n \in DOMAIN _registry' /\ _registry'[n] = _registry[n])
          /\ \A n \in DOMAIN _registry' : status'[_registry'[n]] # "dead"]_vars

\* C12: a construction that returns with register=True adds exactly the entry
\* name -> new frame and changes no other entry; a construction that returns
\* with register=False leaves the registry unchanged.
C12_ConstructionRegistersOneEntry ==
    [][(last'.op = "init" /\ last'.err = "none")
       => IF last'.reg
          THEN /\ last'.arg \notin DOMAIN _registry
               /\ DOMAIN _registry' = DOMAIN _registry \cup {last'.arg}
               /\ _registry'[last'.arg] = last'.obj
               /\ \A n \in DOMAIN _registry : _registry'[n] = _registry[n]
          ELSE _registry' = _registry]_vars

\* C12 witness: a frame was constructed and registered next to another entry
C12_Witness ==
    /\ last.op = "init"
    /\ last.err = "none"
    /\ last.reg
    /\ DOMAIN _registry = {"a", "b"}
    /\ _registry[last.arg] = last.obj

\* C12 witness of the other case: an unregistered frame was constructed under
\* a name another frame holds in the registry
C12_WitnessUnregistered ==
    /\ last.op = "init"
    /\ last.err = "none"
    /\ ~last.reg
    /\ last.arg \in DOMAIN _registry

\* C13: clear_registry never fails and leaves the registry empty whatever it
\* held; it changes no frame's parent, children, translation or rotation; and
\* after it no name is refused as a duplicate: a registration that follows it
\* directly succeeds for every name.
C13_ClearEmptiesRegistry ==
    [][/\ (last'.op = "clear")
            => /\ last'.err = "none"
               /\ DOMAIN _registry' = {}
               /\ UNCHANGED <<parent, children, translation, rotation>>
               /\ \A nm \in Names : ~(nm \in DOMAIN _registry')
       /\ (last.op = "clear" /\ last'.op \in {"init", "register"} /\ last'.reg)
            => (last'.err # "duplicate"
                /\ (last'.err = "none" => _registry'[last'.arg] = last'.obj))]_vars

\* C13 witness: the registry was cleared while two linked frames constructed
\* with register=True are alive, the child with a transform of its own
C13_Witness ==
    /\ last.op = "clear"
    /\ DOMAIN _registry = {}
    /\ \E f \in Frames : \E g \in Frames :
          /\ status[f] = "live" /\ status[g] = "live"
          /\ register[f] /\ register[g]
          /\ parent[g] = f
          /\ children[f] = <<g>>
          /\ translation[g] = <<1, 0, 0>>

\* the frame a call of the three functions has to transform out of: the
\* caller's outof, or the frame named by representation_frame when it is omitted
CallersOutof(outof, attrs) == IF outof = <<"none">> THEN <<"name", attrs[2]>> ELSE outof

\* C14: transform_points, transform_vectors and transform_quaternions call the
\* method of the frame the caller passes as outof; when outof is omitted, of
\* the frame named by the representation_frame attribute; when outof is omitted
\* and the attribute is missing they fail; and the reference_frame attribute
\* has no part in the choice of the frame whose method is called.
C14_OutofIsCallersFrame ==
    (last.op = "transform")
        => IF last.outof = <<"none">> /\ ~HasRepresentationFrame(last.attrs)
           THEN last.err = "outof_missing"
           ELSE last.err = "none"
                    => (/\ last.obj = ResolveRf(CallersOutof(last.outof, last.attrs))
                        /\ last.dst = ResolveRf(last.into))

\* C15: the teardown of a frame is idempotent: a run of it raises no error,
\* and a second run after it raises no error and leaves the registry as the
\* first run left it.
C15_TeardownIdempotent ==
    [][/\ (last'.op = "teardown")
            => /\ last'.err = "none"
               /\ ~DelRaises(_registry', last'.obj)
               /\ Del(_registry', last'.obj) = _registry'
       /\ (last.op = "teardown" /\ last'.op = "teardown" /\ last'.obj = last.obj)
            => _registry' = _registry]_vars

\* C15 witness: the teardown ran on a frame constructed with register=True,
\* whose name is not in the registry afterwards, while another entry stays
C15_Witness ==
    /\ last.op = "teardown"
    /\ last.err = "none"
    /\ register[last.obj]
    /\ name[last.obj] \notin DOMAIN _registry
    /\ DOMAIN _registry # {}

\* the frames whose matrices get_transform multiplies between two frames
OnPath(self, to_rf) ==
    LET w == Walk(self, to_rf)
    IN {w[1][i] : i \in 1..Len(w[1])} \cup {w[2][i] : i \in 1..Len(w[2])}

\* np.eye(3): the rotation that leaves every vector as it is
Eye3 == << <<1, 0, 0>>, <<0, 1, 0>>, <<0, 0, 1>> >>

\* C16: when every frame on the path between two frames of a tree has the
\* identity rotation, get_transform returns the identity rotation whatever the
\* translations on the path are, so its rotation matrix maps every vector to
\* itself.
C16_PureTranslationKeepsVectors ==
    (/\ last.op = "get_transform"
     /\ last.err = "none"
     /\ \A h \in OnPath(last.obj, last.dst) : rotation[h] = IdentityRotation)
        => (/\ last.rotation = IdentityRotation
            /\ AsRotationMatrix(last.rotation) = Eye3)

\* C16 witness: a call between two frames that are no ancestors of each other,
\* over identity rotations and two different translations, returned a
\* translation that is not zero
C16_Witness ==
    /\ last.op = "get_transform"
    /\ last.err = "none"
    /\ Walk(last.obj, last.dst)[1] # <<>>
    /\ Walk(last.obj, last.dst)[2] # <<>>
    /\ \A h \in OnPath(last.obj, last.dst) : rotation[h] = IdentityRotation
    /\ translation[last.obj] = <<1, 2, 3>>
    /\ translation[last.dst] = <<1, 0, 0>>
    /\ last.translation # ZeroTranslation
    /\ last.rotation = IdentityRotation

\* the rotation matrix rot applied to the vector v
Rotate(rot, v) ==
    <<rot[1][1] * v[1] + rot[1][2] * v[2] + rot[1][3] * v[3],
      rot[2][1] * v[1] + rot[2][2] * v[2] + rot[2][3] * v[3],
      rot[3][1] * v[1] + rot[3][2] * v[2] + rot[3][3] * v[3]>>

\* C17: the matrix get_transform applies for a frame it walks upward is the
\* inverse of the frame's transform to its parent: its rotation is q^-1, its
\* translation is the negated translation rotated by q^-1, and its products
\* with the direct matrix of the same frame are the identity.
C17_UpwardMatrixIsInverse ==
    (last.op = "get_transform" /\ last.err = "none")
        => \A rf \in {Walk(last.obj, last.dst)[1][i] : i \in 1..Len(Walk(last.obj, last.dst)[1])} :
              LET inv == GetParentTransformMatrix(rf, TRUE)
                  dir == GetParentTransformMatrix(rf, FALSE)
                  rinv == AsRotationMatrix(QuatInverse(rotation[rf]))
              IN /\ RotationBlock(inv) = rinv
                 /\ TranslationColumn(inv) = Rotate(rinv, Neg(translation[rf]))
                 /\ MatMul(inv, dir) = Eye4
                 /\ MatMul(dir, inv) = Eye4

\* C18: in every reachable state, a frame that was constructed without a
\* parent has translation None and rotation None.
C18_RootHasNoTransform ==
    \A f \in Frames :
        (status[f] = "live" /\ parent[f] = 0)
            => (translation[f] = None /\ rotation[f] = None)

\* C19: a frame constructed with a parent has a translation and a rotation:
\* each is the value given to the constructor, or (0,0,0) respectively
\* (1,0,0,0) when that one was omitted, whatever was given for the other; and
\* every live frame with a parent keeps a 3-vector and a quaternion.
C19_ChildHasTransform ==
    [][/\ (last'.op = "init" /\ last'.err = "none" /\ last'.parentArg # <<"none">>)
            => /\ parent'[last'.obj] # 0
               /\ translation'[last'.obj] = (IF last'.t = None THEN <<0, 0, 0>> ELSE last'.t)
               /\ rotation'[last'.obj] = (IF last'.r = None THEN <<1, 0, 0, 0>> ELSE last'.r)
       /\ \A f \in Frames :
            (status'[f] = "live" /\ parent'[f] # 0)
                => (/\ Len(translation'[f]) = 3
                    /\ Len(rotation'[f]) = 4
                    /\ (status[f] = "live" => (translation'[f] = translation[f]
                                               /\ rotation'[f] = rotation[f])))]_vars

\* C19 witness: a child was constructed with a rotation and without a
\* translation, and has the given rotation and the default translation
C19_Witness ==
    /\ last.op = "init"
    /\ last.err = "none"
    /\ last.parentArg # <<"none">>
    /\ last.t = None
    /\ last.r = <<0, 1, 0, 0>>
    /\ translation[last.obj] = <<0, 0, 0>>
    /\ rotation[last.obj] = <<0, 1, 0, 0>>

\* the frames from f up to the root, f included
AncestorsOrSelf(f) == {Path(f)[i] : i \in 1..Len(Path(f))}

\* the nearest common ancestor of two frames of one tree: the deepest frame
\* that is an ancestor of both, or one of them
NearestCommonAncestor(f, g) ==
    CHOOSE a \in AncestorsOrSelf(f) \cap AncestorsOrSelf(g) :
        \A b \in AncestorsOrSelf(f) \cap AncestorsOrSelf(g) : Len(Path(b)) <= Len(Path(a))

RECURSIVE UpChain(_, _)
\* f, its parent, ... up to but not including the ancestor a
UpChain(f, a) == IF f = a THEN <<>> ELSE <<f>> \o UpChain(parent[f], a)

RECURSIVE DownChain(_, _)
\* from but not including the ancestor a down to g
DownChain(a, g) == IF g = a THEN <<>> ELSE Append(DownChain(a, parent[g]), g)

\* C20: the walk of a get_transform call between a source and a target of one
\* tree is up = the frames from the source up to but not including their
\* nearest common ancestor, in that order, and down = the frames from but not
\* including that ancestor down to the target, in that order; both are empty
\* when source and target are one frame.
C20_WalkIsUpThenDown ==
    (last.op = "get_transform" /\ last.err = "none")
        => LET f == last.obj
               g == last.dst
           IN /\ Walk(f, g)[1] = UpChain(f, NearestCommonAncestor(f, g))
              /\ Walk(f, g)[2] = DownChain(NearestCommonAncestor(f, g), g)
              /\ (f = g => Walk(f, g) = <<<<>>, <<>>>>)

\* C20 witness: get_transform walked two frames up, from a grandchild to the root
C20_Witness ==
    /\ last.op = "get_transform"
    /\ last.err = "none"
    /\ parent[last.obj] # 0
    /\ parent[parent[last.obj]] = last.dst
    /\ Walk(last.obj, last.dst) = <<<<last.obj, parent[last.obj]>>, <<>>>>

\* C20 witness of a walk up and down: between two children of one frame
C20_WitnessSiblings ==
    /\ last.op = "get_transform"
    /\ last.err = "none"
    /\ last.obj # last.dst
    /\ parent[last.obj] # 0
    /\ parent[last.obj] = parent[last.dst]
    /\ Walk(last.obj, last.dst) = <<<<last.obj>>, <<last.dst>>>>

\* C21: a parent given to the constructor or a target given to get_transform as
\* a name is the frame registered under that name when the call is made, and
\* the call fails when the name is not registered; a parent or target given as
\* a frame object is that object, registered or not.
C21_NamesResolveThroughRegistry ==
    [][/\ (last'.op = "init" /\ last'.parentArg[1] = "name")
            => IF last'.parentArg[2] \in DOMAIN _registry
               THEN /\ last'.err # "parent_not_found"
                    /\ last'.err = "none" => parent'[last'.obj] = _registry[last'.parentArg[2]]
               ELSE /\ last'.err = "parent_not_found"
                    /\ status'[last'.obj] = "rejected"
                    /\ parent'[last'.obj] = 0
       /\ (last'.op = "init" /\ last'.parentArg[1] = "frame")
            => /\ last'.err # "parent_not_found"
               /\ last'.err = "none" => parent'[last'.obj] = last'.parentArg[2]
       /\ (last'.op = "get_transform" /\ last'.parentArg[1] = "name")
            => IF last'.parentArg[2] \in DOMAIN _registry
               THEN /\ last'.err # "not_found"
                    /\ last'.dst = _registry[last'.parentArg[2]]
               ELSE /\ last'.err = "not_found"
                    /\ last'.translation = None
                    /\ last'.rotation = None
       /\ (last'.op = "get_transform" /\ last'.parentArg[1] = "frame")
            => /\ last'.err # "not_found"
               /\ last'.dst = last'.parentArg[2]]_vars

\* C21 witness: get_transform was refused for the name of a live frame that
\* was constructed with register=True and is not registered any more
C21_Witness ==
    /\ last.op = "get_transform"
    /\ last.parentArg[1] = "name"
    /\ last.err = "not_found"
    /\ \E f \in Frames : status[f] = "live" /\ register[f] /\ name[f] = last.parentArg[2]

\* C21 witness of a frame object: a frame that is not registered, and whose
\* name another frame holds in the registry, was made the parent of a new frame
C21_WitnessUnregisteredParent ==
    /\ last.op = "init"
    /\ last.err = "none"
    /\ last.parentArg[1] = "frame"
    /\ parent[last.obj] = last.parentArg[2]
    /\ name[last.parentArg[2]] \in DOMAIN _registry
    /\ _registry[name[last.parentArg[2]]] # last.parentArg[2]

\* C22: a get_transform call, with the walk it starts, reads only: whether it
\* returns or fails, the registry, the parent and the children of every frame
\* and the translation and the rotation of every frame are after the call what
\* they were before it.
C22_GetTransformReadsOnly ==
    [][(last'.op = "get_transform")
       => /\ _registry' = _registry
          /\ parent' = parent
          /\ children' = children
          /\ translation' = translation
          /\ rotation' = rotation
          /\ name' = name
          /\ register' = register]_vars

\* C22 witness: a call returned after walking up over a frame that is rotated
\* and translated against its parent
C22_Witness ==
    /\ last.op = "get_transform"
    /\ last.err = "none"
    /\ last.parentArg[1] = "name"
    /\ Walk(last.obj, last.dst)[1] # <<>>
    /\ translation[last.obj] = <<1, 2, 3>>
    /\ rotation[last.obj] = <<0, 1, 0, 0>>
    /\ last.translation = <<-1, -2, -3>>

\* C22 witness of a failed call: the target was a name that is not registered
C22_WitnessFailed ==
    /\ last.op = "get_transform"
    /\ last.err = "not_found"
    /\ parent[last.obj] # 0
    /\ translation[last.obj] = <<1, 2, 3>>

RECURSIVE AncestorAt(_, _)
\* the frame k parent links above f (0: there is none)
AncestorAt(f, k) ==
    IF f = 0 THEN 0
    ELSE IF k = 0 THEN f
    ELSE AncestorAt(parent[f], k - 1)

\* how often x is in the children of p
TimesChildOf(x, p) == Cardinality({i \in 1..Len(children[p]) : children[p][i] = x})

\* C23: in every reachable state the parent/children relation is a forest:
\* every frame is a child of at most one frame, and there once; no frame is
\* its own ancestor; and x is in the children of p exactly when the parent of
\* x is p.
C23_ParentChildrenIsForest ==
    \A x \in Frames :
        /\ Cardinality({p \in Frames : TimesChildOf(x, p) > 0}) <= 1
        /\ \A p \in Frames : TimesChildOf(x, p) <= 1
        /\ \A k \in 1..MaxFrames : AncestorAt(x, k) # x
        /\ \A p \in Frames : (TimesChildOf(x, p) = 1) <=> (parent[x] = p)

\* C23 witness: a frame and its child are alive after a deregistration
C23_Witness ==
    /\ last.op = "deregister"
    /\ last.err = "none"
    /\ \E p \in Frames : \E x \in Frames :
          /\ status[p] = "live" /\ status[x] = "live"
          /\ parent[x] = p
          /\ children[p] = <<x>>
          /\ name[p] = last.arg

\* C24: in every reachable state each key of the registry maps to one live
\* frame whose name is that key, so two different keys map to two different
\* frames with different names.
C24_RegistryKeyIsFrameName ==
    /\ \A n \in DOMAIN _registry :
          /\ _registry[n] \in Frames
          /\ status[_registry[n]] = "live"
          /\ name[_registry[n]] = n
    /\ \A n \in DOMAIN _registry : \A m \in DOMAIN _registry :
          n # m => (/\ _registry[n] # _registry[m]
                    /\ name[_registry[n]] # name[_registry[m]])

\* C24 witness: two frames are registered under two names, the second one by
\* a call of register_reference_frame on a frame constructed with register=False
C24_Witness ==
    /\ last.op = "register"
    /\ last.err = "none"
    /\ ~register[last.obj]
    /\ DOMAIN _registry = {"a", "b"}
    /\ _registry[last.arg] = last.obj

=============================================================================
